---- MODULE Spec2Model ----
(***************************************************************************)
(* ReaderThread of src/Pyserial/pyserial_example.py: a worker thread that  *)
(* reads a serial port and dispatches to a Protocol instance, together     *)
(* with the caller-side operations start/stop/close/connect/write and the  *)
(* context-manager protocol.  Every access to a shared attribute is one    *)
(* step, so the threads interleave as the interpreter lets them.           *)
(***************************************************************************)
EXTENDS Naturals, Sequences, FiniteSets, TLC

\* ------------------------------------------------------------------ bounds
\* Bytes the device delivers during one behaviour.
MaxFeed == 2
\* Calls of stop, close, write and connect during one behaviour (start and
\* scoped entry happen at most once each and are not counted).
MaxCalls == 2

\* ------------------------------------------------------------- value sets
Callers == {"main", "aux"}
\* The thread that constructed the ReaderThread and drives its life cycle;
\* the other threads only use the transport.
Owner == "main"
\* The worker thread's identity as a lock holder.
Reader == "reader"
NoHolder == "free"
\* Python's None, for protocol, error and serial.timeout.
None == "None"
\* What the factory makes: a Protocol subclass that keeps the connection_lost
\* of the base class, or one that overrides it, as rawProtocal does.
ProtocolClasses == {"keeps_connection_lost", "overrides_connection_lost"}
\* The value run() assigns to serial.timeout.
OneSecond == "1"

VARIABLES
    \* ReaderThread attributes set by __init__
    alive, protocol, _lock, _connection_made, serial, protocol_factory,
    \* threading.Thread state and the locals of run()
    started, runPc, error, data, size, uncaught,
    \* the caller threads
    frame, pc, ctx, outcome, calls,
    \* the device
    hasCancelRead, fed,
    \* what the Protocol instance has seen
    madeReturned, madeRaised, received, readLog, lostCalls, lostArg,
    \* the first exception raised by serial.read or data_received, if any
    failure

objVars == <<alive, protocol, _lock, _connection_made, serial, protocol_factory>>
runVars == <<started, runPc, error, data, size, uncaught>>
callerVars == <<frame, pc, ctx, outcome, calls>>
devVars == <<hasCancelRead, fed>>
histVars == <<madeReturned, madeRaised, received, readLog, lostCalls, lostArg,
              failure>>
vars == <<objVars, runVars, callerVars, devVars, histVars>>

\* ------------------------------------------------------------ Protocol
\* Protocol.connection_lost re-raises an Exception argument; rawProtocal's
\* override only drops its transport.  TRUE when the call raises.
connection_lost_raises(cls, exc) == cls = "keeps_connection_lost" /\ exc # None

\* ------------------------------------------------------------ __init__
Init ==
    /\ alive = TRUE
    /\ protocol = None
    /\ _lock = NoHolder
    /\ _connection_made = FALSE
    /\ protocol_factory \in ProtocolClasses
    /\ hasCancelRead \in BOOLEAN
    /\ serial \in [is_open : {TRUE}, timeout : {None, OneSecond}, rx : {<<>>},
                   cancelled : {FALSE}, writing : {{}}]
    \* without cancel_read, line 62 overwrites the timeout before any read
    /\ ~hasCancelRead => serial.timeout = None
    /\ started = FALSE
    /\ runPc = "unstarted"
    /\ error = None
    /\ data = <<>>
    /\ size = 0
    /\ uncaught = None
    /\ frame = [c \in Callers |-> "idle"]
    /\ pc = [c \in Callers |-> "idle"]
    /\ ctx = [c \in Callers |-> FALSE]
    /\ outcome = [c \in Callers |->
                     [op |-> "none", result |-> "none", value |-> None]]
    /\ calls = 0
    /\ fed = 0
    /\ madeReturned = FALSE
    /\ madeRaised = FALSE
    /\ received = <<>>
    /\ readLog = <<>>
    /\ lostCalls = 0
    /\ lostArg = None
    /\ failure = None

\* ------------------------------------------------------------ the device
\* The device delivers one more byte into the port's input buffer; the k-th
\* byte of the stream is written k, so that every byte is told apart.  Only
\* line 76 looks at the buffer, so a byte that arrives earlier is delivered
\* when the worker thread is at line 76: it would be seen by the same read.
Feed ==
    /\ fed < MaxFeed
    /\ serial.is_open
    /\ runPc \in {"read_call", "reading"}
    /\ serial' = [serial EXCEPT !.rx = Append(@, fed + 1)]
    /\ fed' = fed + 1
    /\ UNCHANGED <<alive, protocol, _lock, _connection_made, protocol_factory,
                   runVars, callerVars, hasCancelRead, histVars>>

\* ------------------------------------------------------------ run()
\* run() marking the thread alive again as it begins.
BadRunFactory ==
    /\ runPc = "factory"
    /\ alive' = TRUE
    /\ serial' = IF hasCancelRead THEN serial
                 ELSE [serial EXCEPT !.timeout = OneSecond]
    /\ protocol' = protocol_factory
    /\ runPc' = "connection_made"
    /\ UNCHANGED <<_lock, _connection_made, protocol_factory,
                   started, error, data, size, uncaught,
                   callerVars, devVars, histVars>>

\* line 61-63: without cancel_read the port is polled with a 1 s timeout;
\* then the Protocol instance is made.
RunFactory ==
    /\ runPc = "factory"
    /\ serial' = IF hasCancelRead THEN serial
                 ELSE [serial EXCEPT !.timeout = OneSecond]
    /\ protocol' = protocol_factory
    /\ runPc' = "connection_made"
    /\ UNCHANGED <<alive, _lock, _connection_made, protocol_factory,
                   started, error, data, size, uncaught,
                   callerVars, devVars, histVars>>

\* Where run() goes when connection_made raised (line 66).
BadStartupFailurePc == "signal"

StartupFailurePc == "startup_failed"

\* line 64-66: connection_made(self) returns or raises.
RunConnectionMade ==
    /\ runPc = "connection_made"
    /\ \/ /\ madeReturned' = TRUE
          /\ runPc' = "signal"
          /\ UNCHANGED <<madeRaised, error>>
       \/ /\ madeRaised' = TRUE
          /\ error' = "MadeError"
          /\ runPc' = StartupFailurePc
          /\ UNCHANGED madeReturned
    /\ UNCHANGED <<objVars, started, data, size, uncaught,
                   callerVars, devVars, received, readLog, lostCalls, lostArg,
                   failure>>

\* line 67
RunStartupNotAlive ==
    /\ runPc = "startup_failed"
    /\ alive' = FALSE
    /\ runPc' = "startup_lost"
    /\ UNCHANGED <<protocol, _lock, _connection_made, serial, protocol_factory,
                   started, error, data, size, uncaught,
                   callerVars, devVars, histVars>>

\* line 68: connection_lost(e); when it raises, the exception leaves run()
\* and the thread ends there.
RunStartupLost ==
    /\ runPc = "startup_lost"
    /\ lostCalls' = lostCalls + 1
    /\ lostArg' = error
    /\ IF connection_lost_raises(protocol, error)
       THEN runPc' = "dead" /\ uncaught' = error
       ELSE runPc' = "startup_signal" /\ UNCHANGED uncaught
    /\ UNCHANGED <<objVars, started, error, data, size,
                   callerVars, devVars, madeReturned, madeRaised, received, readLog,
                   failure>>

\* Where run() goes after line 69.
BadAfterStartupSignal == "loop"

AfterStartupSignal == "dead"

\* line 69-70: set the event and return.
RunStartupSignal ==
    /\ runPc = "startup_signal"
    /\ _connection_made' = TRUE
    /\ runPc' = AfterStartupSignal
    /\ UNCHANGED <<alive, protocol, _lock, serial, protocol_factory,
                   started, error, data, size, uncaught,
                   callerVars, devVars, histVars>>

\* line 71-72
RunSignal ==
    /\ runPc = "signal"
    /\ error' = None
    /\ _connection_made' = TRUE
    /\ runPc' = "loop"
    /\ UNCHANGED <<alive, protocol, _lock, serial, protocol_factory,
                   started, data, size, uncaught,
                   callerVars, devVars, histVars>>

\* line 73 as `while self.serial.is_open`: alive is not looked at.
BadRunLoopCheck ==
    /\ runPc = "loop"
    /\ runPc' = IF serial.is_open THEN "read_call" ELSE "finish"
    /\ UNCHANGED <<objVars, started, error, data, size, uncaught,
                   callerVars, devVars, histVars>>

\* line 73: `self.alive and self.serial.is_open`.  is_open only ever goes
\* from True to False, so reading both in one step loses no outcome.
RunLoopCheck ==
    /\ runPc = "loop"
    /\ runPc' = IF alive /\ serial.is_open THEN "read_call" ELSE "finish"
    /\ UNCHANGED <<objVars, started, error, data, size, uncaught,
                   callerVars, devVars, histVars>>

\* line 76: in_waiting or 1, then read() is entered.  On a closed port
\* pyserial raises PortNotOpenError, a SerialException (line 77-81).
RunReadCall ==
    /\ runPc = "read_call"
    /\ IF serial.is_open
       THEN /\ size' = IF Len(serial.rx) > 0 THEN Len(serial.rx) ELSE 1
            /\ runPc' = "reading"
            /\ UNCHANGED error
       ELSE /\ error' = "SerialException"
            /\ runPc' = "finish"
            /\ UNCHANGED size
    /\ failure' = error'
    /\ UNCHANGED <<objVars, started, data, uncaught, callerVars, devVars,
                   madeReturned, madeRaised, received, readLog,
                   lostCalls, lostArg>>

\* line 76, read() returning the bytes asked for.
RunReadData ==
    /\ runPc = "reading"
    /\ Len(serial.rx) >= size
    /\ data' = SubSeq(serial.rx, 1, size)
    /\ serial' = [serial EXCEPT !.rx = SubSeq(@, size + 1, Len(@))]
    /\ readLog' = readLog \o data'
    /\ size' = 0
    /\ runPc' = "data_received"
    /\ UNCHANGED <<alive, protocol, _lock, _connection_made, protocol_factory,
                   started, error, uncaught, callerVars, devVars,
                   madeReturned, madeRaised, received, lostCalls, lostArg, failure>>

\* line 76 without the test of line 83: the empty result is dispatched.
BadRunReadTimeout ==
    /\ runPc = "reading"
    /\ serial.timeout # None
    /\ Len(serial.rx) < size
    /\ data' = <<>>
    /\ size' = 0
    /\ runPc' = "data_received"
    /\ UNCHANGED <<objVars, started, error, uncaught,
                   callerVars, devVars, histVars>>

\* line 76, read() returning b'' when the timeout expires; line 83 then
\* skips the dispatch.
RunReadTimeout ==
    /\ runPc = "reading"
    /\ serial.timeout # None
    /\ Len(serial.rx) < size
    /\ data' = <<>>
    /\ size' = 0
    /\ runPc' = "loop"
    /\ UNCHANGED <<objVars, started, error, uncaught,
                   callerVars, devVars, histVars>>

\* line 76, read() returning b'' because cancel_read() woke it.
RunReadCancelled ==
    /\ runPc = "reading"
    /\ serial.cancelled
    /\ serial' = [serial EXCEPT !.cancelled = FALSE]
    /\ data' = <<>>
    /\ size' = 0
    /\ runPc' = "loop"
    /\ UNCHANGED <<alive, protocol, _lock, _connection_made, protocol_factory,
                   started, error, uncaught,
                   callerVars, devVars, histVars>>

\* line 77-81: read() raises SerialException (I/O problem, port closed
\* under the read).
RunReadError ==
    /\ runPc = "reading"
    /\ error' = "SerialException"
    /\ failure' = "SerialException"
    /\ size' = 0
    /\ runPc' = "finish"
    /\ UNCHANGED <<objVars, started, data, uncaught, callerVars, devVars,
                   madeReturned, madeRaised, received, readLog,
                   lostCalls, lostArg>>

\* line 86 handing over the first byte of the chunk only.
BadRunDataReceived ==
    /\ runPc = "data_received"
    /\ received' = Append(received, Head(data))
    /\ data' = <<>>
    /\ runPc' = "in_data_received"
    /\ UNCHANGED <<objVars, started, error, size, uncaught,
                   callerVars, devVars,
                   madeReturned, madeRaised, readLog, lostCalls, lostArg, failure>>

\* line 86: data_received(data) is entered.  run() does not use its locals
\* data and size after the call they were made for, so they are reset.
RunDataReceived ==
    /\ runPc = "data_received"
    /\ received' = received \o data
    /\ data' = <<>>
    /\ runPc' = "in_data_received"
    /\ UNCHANGED <<objVars, started, error, size, uncaught,
                   callerVars, devVars,
                   madeReturned, madeRaised, readLog, lostCalls, lostArg, failure>>

\* data_received returns: back to line 73.
HandlerReturn ==
    /\ runPc = "in_data_received"
    /\ runPc' = "loop"
    /\ UNCHANGED <<objVars, started, error, data, size, uncaught,
                   callerVars, devVars, histVars>>

\* line 87-89 without `error = e`: the exception is swallowed.
BadHandlerRaise ==
    /\ runPc = "in_data_received"
    /\ failure' = "HandlerError"
    /\ runPc' = "finish"
    /\ UNCHANGED <<objVars, started, error, data, size, uncaught,
                   callerVars, devVars,
                   madeReturned, madeRaised, received, readLog,
                   lostCalls, lostArg>>

\* line 87-89: data_received raises.
HandlerRaise ==
    /\ runPc = "in_data_received"
    /\ error' = "HandlerError"
    /\ failure' = "HandlerError"
    /\ runPc' = "finish"
    /\ UNCHANGED <<objVars, started, data, size, uncaught, callerVars, devVars,
                   madeReturned, madeRaised, received, readLog,
                   lostCalls, lostArg>>

\* data_received answers on the transport: transport.write(...), line 94.
HandlerCallsWrite ==
    /\ runPc = "in_data_received"
    /\ runPc' = "handler_write_lock"
    /\ UNCHANGED <<objVars, started, error, data, size, uncaught,
                   callerVars, devVars, histVars>>

\* ------------------------------------------------------------ the lock
\* `with self._lock:` entered by thread t (line 96, line 104).
BadLockAcquire(t) == UNCHANGED _lock

LockAcquire(t) == _lock = NoHolder /\ _lock' = t

\* `with self._lock:` left, normally or by an exception.
LockRelease(t) == _lock' = NoHolder

\* line 96-99 in the worker thread: the lock is taken and serial.write is
\* entered, or raises PortNotOpenError on a closed port, which leaves
\* data_received (line 87-89).  The port is closed only under the lock, so
\* taking the lock and testing the port are one step.
HandlerWriteBegin ==
    /\ runPc = "handler_write_lock"
    /\ LockAcquire(Reader)
    /\ IF serial.is_open
       THEN /\ serial' = [serial EXCEPT !.writing = @ \cup {Reader}]
            /\ runPc' = "handler_writing"
            /\ UNCHANGED error
       ELSE /\ error' = "SerialException"
            /\ runPc' = "handler_write_failed"
            /\ UNCHANGED serial
    /\ failure' = error'
    /\ UNCHANGED <<alive, protocol, _connection_made, protocol_factory,
                   started, data, size, uncaught, callerVars, devVars,
                   madeReturned, madeRaised, received, readLog,
                   lostCalls, lostArg>>

\* the failed write leaves the `with` block: the lock is released
HandlerWriteFailed ==
    /\ runPc = "handler_write_failed"
    /\ LockRelease(Reader)
    /\ runPc' = "finish"
    /\ UNCHANGED <<alive, protocol, _connection_made, serial, protocol_factory,
                   started, error, data, size, uncaught,
                   callerVars, devVars, histVars>>

\* line 99 returns in the worker thread, the lock is released and
\* data_received returns.
HandlerWriteEnd ==
    /\ runPc = "handler_writing"
    /\ serial' = [serial EXCEPT !.writing = @ \ {Reader}]
    /\ LockRelease(Reader)
    /\ runPc' = "loop"
    /\ UNCHANGED <<alive, protocol, _connection_made, protocol_factory,
                   started, error, data, size, uncaught,
                   callerVars, devVars, histVars>>

\* line 90
RunNotAlive ==
    /\ runPc = "finish"
    /\ alive' = FALSE
    /\ runPc' = "lost"
    /\ UNCHANGED <<protocol, _lock, _connection_made, serial, protocol_factory,
                   started, error, data, size, uncaught,
                   callerVars, devVars, histVars>>

\* line 91: connection_lost(error); when it raises, line 92 is not reached.
RunLost ==
    /\ runPc = "lost"
    /\ lostCalls' = lostCalls + 1
    /\ lostArg' = error
    /\ IF connection_lost_raises(protocol, error)
       THEN runPc' = "dead" /\ uncaught' = error
       ELSE runPc' = "release" /\ UNCHANGED uncaught
    /\ UNCHANGED <<objVars, started, error, data, size,
                   callerVars, devVars, madeReturned, madeRaised, received, readLog,
                   failure>>

\* line 92
RunRelease ==
    /\ runPc = "release"
    /\ protocol' = None
    /\ runPc' = "dead"
    /\ UNCHANGED <<alive, _lock, _connection_made, serial, protocol_factory,
                   started, error, data, size, uncaught,
                   callerVars, devVars, histVars>>

Run ==
    \/ RunFactory \/ RunConnectionMade
    \/ RunStartupNotAlive \/ RunStartupLost \/ RunStartupSignal
    \/ RunSignal \/ RunLoopCheck \/ RunReadCall
    \/ RunReadData \/ RunReadTimeout \/ RunReadCancelled \/ RunReadError
    \/ RunDataReceived \/ HandlerReturn \/ HandlerRaise \/ HandlerCallsWrite
    \/ HandlerWriteBegin \/ HandlerWriteFailed \/ HandlerWriteEnd
    \/ RunNotAlive \/ RunLost \/ RunRelease

\* ------------------------------------------------------- caller threads
\* A call is modelled from its first access to shared state: the call itself
\* changes nothing.  Taking the lock is merged with the statement after it
\* and releasing it with the statement before it (no other thread can tell
\* the difference).
Goto(c, p) == pc' = [pc EXCEPT ![c] = p]

\* The call of thread c ends: `result` is "ok" or the exception raised.
Return(c, op, result, value) ==
    /\ frame' = [frame EXCEPT ![c] = "idle"]
    /\ pc' = [pc EXCEPT ![c] = "idle"]
    /\ outcome' = [outcome EXCEPT ![c] =
                      [op |-> op, result |-> result, value |-> value]]

\* "repeated" when the last call thread c completed was the same operation
\* and succeeded: the call now returning came directly after it.
Repeated(c, op) ==
    IF outcome[c].op = op /\ outcome[c].result = "ok" THEN "repeated" ELSE None

\* Thread c is free to make its next API call.
CanCall(c) == frame[c] = "idle" /\ calls < MaxCalls

\* Thread.start(): a second start raises RuntimeError.
Start(c) ==
    /\ c = Owner
    /\ frame[c] = "idle"
    /\ UNCHANGED calls
    /\ IF started
       THEN /\ outcome' = [outcome EXCEPT ![c] =
                   [op |-> "start", result |-> "RuntimeError", value |-> None]]
            /\ UNCHANGED <<started, runPc>>
       ELSE /\ started' = TRUE
            /\ runPc' = "factory"
            /\ outcome' = [outcome EXCEPT ![c] =
                   [op |-> "start", result |-> "ok", value |-> None]]
    /\ UNCHANGED <<objVars, error, data, size, uncaught,
                   frame, pc, ctx, devVars, histVars>>

\* ------------------------------------------------------------ stop()
\* line 54
Stop(c) ==
    /\ c = Owner
    /\ CanCall(c)
    /\ calls' = calls + 1
    /\ alive' = FALSE
    /\ frame' = [frame EXCEPT ![c] = "stop"]
    /\ Goto(c, "stop_cancel")
    /\ UNCHANGED <<protocol, _lock, _connection_made, serial, protocol_factory,
                   runVars, ctx, outcome, devVars, histVars>>

\* line 55-56 closing the port instead of cancelling the read.
StopClosesPort(c) ==
    /\ pc[c] = "stop_cancel"
    /\ serial' = [serial EXCEPT !.is_open = FALSE]
    /\ Goto(c, "stop_join")
    /\ UNCHANGED <<alive, protocol, _lock, _connection_made, protocol_factory,
                   runVars, frame, ctx, outcome, calls, devVars, histVars>>

\* stop() without line 55-56: the read in progress is not woken.
NoCancelRead(c) ==
    /\ pc[c] = "stop_cancel"
    /\ Goto(c, "stop_join")
    /\ UNCHANGED <<objVars, runVars, frame, ctx, outcome, calls, devVars,
                   histVars>>

\* line 55-56, reached from stop() itself, from close() and from __exit__:
\* cancel_read() wakes the read in progress, or the next one.
StopCancelRead(c) ==
    /\ pc[c] = "stop_cancel"
    /\ serial' = IF hasCancelRead /\ serial.is_open
                 THEN [serial EXCEPT !.cancelled = TRUE]
                 ELSE serial
    /\ Goto(c, "stop_join")
    /\ UNCHANGED <<alive, protocol, _lock, _connection_made, protocol_factory,
                   runVars, frame, ctx, outcome, calls, devVars, histVars>>

\* stop() has returned to its caller: the API caller, or close() at line 107.
AfterStop(c) ==
    IF frame[c] = "stop"
    THEN Return(c, "stop", "ok", None)
    ELSE Goto(c, "close_serial") /\ UNCHANGED <<frame, outcome>>

\* Thread.join() raises RuntimeError on a thread that was never started; a
\* thread that has ended can be joined any number of times.
BadJoinRaises == ~started \/ runPc = "dead"

JoinRaises == ~started

\* line 57 raising: the exception leaves stop() and, inside close(), the
\* `with` block.
StopJoinUnstarted(c) ==
    /\ pc[c] = "stop_join"
    /\ JoinRaises
    /\ IF frame[c] = "stop"
       THEN Return(c, "stop", "RuntimeError", None) /\ UNCHANGED _lock
       ELSE Return(c, "close", "RuntimeError", Repeated(c, "close")) /\ LockRelease(c)
    /\ UNCHANGED <<alive, protocol, _connection_made, serial, protocol_factory,
                   runVars, ctx, calls, devVars, histVars>>

\* line 57: the worker thread has ended, join() returns.
StopJoinExited(c) ==
    /\ pc[c] = "stop_join"
    /\ ~JoinRaises
    /\ runPc = "dead"
    /\ AfterStop(c)
    /\ UNCHANGED <<objVars, runVars, ctx, calls, devVars, histVars>>

\* line 57 as join() with no timeout: it returns only once the worker thread
\* has ended.
JoinWithoutTimeout(c) ==
    /\ pc[c] = "stop_join"
    /\ ~JoinRaises
    /\ runPc # "dead"
    /\ FALSE
    /\ UNCHANGED vars

\* line 57: the 2 s of join(2) pass while the worker thread is still running.
StopJoinTimedOut(c) ==
    /\ pc[c] = "stop_join"
    /\ ~JoinRaises
    /\ runPc # "dead"
    /\ AfterStop(c)
    /\ UNCHANGED <<objVars, runVars, ctx, calls, devVars, histVars>>

\* ------------------------------------------------------------ close()
\* line 104-106, line 54: the lock is taken and stop() begins.
CloseBegin(c) ==
    /\ LockAcquire(c)
    /\ alive' = FALSE
    /\ Goto(c, "stop_cancel")
    /\ UNCHANGED <<protocol, _connection_made, serial, protocol_factory,
                   runVars, ctx, outcome, devVars, histVars>>

Close(c) ==
    /\ CanCall(c)
    /\ calls' = calls + 1
    /\ frame' = [frame EXCEPT ![c] = "close"]
    /\ CloseBegin(c)

\* line 107: serial.close() (closing a closed port changes nothing), then the
\* lock is released; inside __exit__ the with-statement is left, and an
\* exception of the wrapped code propagates.
CloseSerial(c) ==
    /\ pc[c] = "close_serial"
    /\ serial' = [serial EXCEPT !.is_open = FALSE, !.rx = <<>>,
                                !.cancelled = FALSE]
    /\ LockRelease(c)
    /\ CASE frame[c] = "exit" -> Return(c, "exit", "ok", None)
         [] frame[c] = "exit_raised" -> Return(c, "exit", "reraised", None)
         [] OTHER -> Return(c, "close", "ok", Repeated(c, "close"))
    /\ UNCHANGED <<alive, protocol, _connection_made, protocol_factory,
                   runVars, ctx, calls, devVars, histVars>>

\* ------------------------------------------------------------ write()
\* line 96-99: the lock is taken and serial.write is entered; on a closed
\* port it raises PortNotOpenError.
Write(c) ==
    /\ CanCall(c)
    /\ calls' = calls + 1
    /\ LockAcquire(c)
    /\ frame' = [frame EXCEPT ![c] = "write"]
    /\ IF serial.is_open
       THEN /\ serial' = [serial EXCEPT !.writing = @ \cup {c}]
            /\ Goto(c, "writing")
       ELSE /\ Goto(c, "write_failed")
            /\ UNCHANGED serial
    /\ UNCHANGED <<alive, protocol, _connection_made, protocol_factory,
                   runVars, ctx, outcome, devVars, histVars>>

\* the failed write leaves the `with` block: the lock is released
WriteFailed(c) ==
    /\ pc[c] = "write_failed"
    /\ LockRelease(c)
    /\ Return(c, "write", "SerialException", None)
    /\ UNCHANGED <<alive, protocol, _connection_made, serial, protocol_factory,
                   runVars, ctx, calls, devVars, histVars>>

\* line 99 returns, the lock is released.
WriteEnd(c) ==
    /\ pc[c] = "writing"
    /\ serial' = [serial EXCEPT !.writing = @ \ {c}]
    /\ LockRelease(c)
    /\ Return(c, "write", "ok", None)
    /\ UNCHANGED <<alive, protocol, _connection_made, protocol_factory,
                   runVars, ctx, calls, devVars, histVars>>

\* ------------------------------------------------------------ connect()
\* line 114, line 119-120.  ctx[c] keeps whether connection_made had already
\* raised when the call was made.
Connect(c) ==
    /\ c = Owner
    /\ CanCall(c)
    /\ calls' = calls + 1
    /\ ctx' = [ctx EXCEPT ![c] = madeRaised]
    /\ IF alive
       THEN /\ frame' = [frame EXCEPT ![c] = "connect"]
            /\ Goto(c, "connect_wait")
            /\ outcome' = [outcome EXCEPT ![c] =
                   [op |-> "connect", result |-> "waiting", value |-> None]]
       ELSE Return(c, "connect", "already stopped", None)
    /\ UNCHANGED <<objVars, runVars, devVars, histVars>>

\* line 115-117: Event.wait() returns once the event is set (and it stays
\* set), then alive is read again.
ConnectWake(c) ==
    /\ pc[c] = "connect_wait"
    /\ _connection_made
    /\ IF alive
       THEN Goto(c, "connect_return") /\ UNCHANGED <<frame, outcome>>
       ELSE Return(c, "connect", "connection_lost already called", None)
    /\ UNCHANGED <<objVars, runVars, ctx, calls, devVars, histVars>>

\* line 118
ConnectReturn(c) ==
    /\ pc[c] = "connect_return"
    /\ Return(c, "connect", "ok", protocol)
    /\ UNCHANGED <<objVars, runVars, ctx, calls, devVars, histVars>>

\* ------------------------------------------- `with ReaderThread(...) as p:`
\* line 129: __enter__ starts the thread.
Enter(c) ==
    /\ c = Owner
    /\ frame[c] = "idle"
    /\ ~started
    /\ UNCHANGED calls
    /\ started' = TRUE
    /\ runPc' = "factory"
    /\ frame' = [frame EXCEPT ![c] = "enter"]
    /\ Goto(c, "enter_wait")
    /\ UNCHANGED <<objVars, error, data, size, uncaught, ctx, outcome,
                   devVars, histVars>>

\* line 130-132: an exception raised by __enter__ leaves the with-statement
\* without a call of __exit__.
EnterWake(c) ==
    /\ pc[c] = "enter_wait"
    /\ _connection_made
    /\ IF alive
       THEN Goto(c, "enter_return") /\ UNCHANGED <<frame, outcome>>
       ELSE Return(c, "enter", "connection_lost already called", None)
    /\ UNCHANGED <<objVars, runVars, ctx, calls, devVars, histVars>>

\* line 133: the with-block is entered with self.protocol as its target.
EnterReturn(c) ==
    /\ pc[c] = "enter_return"
    /\ frame' = [frame EXCEPT ![c] = "body"]
    /\ Goto(c, "body")
    /\ outcome' = [outcome EXCEPT ![c] =
                      [op |-> "enter", result |-> "ok", value |-> protocol]]
    /\ UNCHANGED <<objVars, runVars, ctx, calls, devVars, histVars>>

\* The wrapped code raising past the with-statement with no call of __exit__.
BadBody(c) ==
    /\ pc[c] = "body"
    /\ \/ frame' = [frame EXCEPT ![c] = "exit"] /\ Goto(c, "exit")
                /\ UNCHANGED outcome
       \/ Return(c, "exit", "reraised", None)
    /\ UNCHANGED <<objVars, runVars, ctx, calls, devVars, histVars>>

\* line 210-212: the wrapped code finishes or raises; either way the
\* with-statement calls __exit__.
Body(c) ==
    /\ pc[c] = "body"
    /\ \/ frame' = [frame EXCEPT ![c] = "exit"]
       \/ frame' = [frame EXCEPT ![c] = "exit_raised"]
    /\ Goto(c, "exit")
    /\ UNCHANGED <<objVars, runVars, ctx, outcome, calls, devVars, histVars>>

\* line 135-137: __exit__ calls close().
Exit(c) ==
    /\ pc[c] = "exit"
    /\ CloseBegin(c)
    /\ UNCHANGED <<frame, calls>>

Caller(c) ==
    \/ Start(c)
    \/ Stop(c) \/ StopCancelRead(c)
    \/ StopJoinUnstarted(c) \/ StopJoinExited(c) \/ StopJoinTimedOut(c)
    \/ Close(c) \/ CloseSerial(c)
    \/ Write(c) \/ WriteFailed(c) \/ WriteEnd(c)
    \/ Connect(c) \/ ConnectWake(c) \/ ConnectReturn(c)
    \/ Enter(c) \/ EnterWake(c) \/ EnterReturn(c) \/ Body(c) \/ Exit(c)

Next == Feed \/ Run \/ \E c \in Callers : Caller(c)

Spec == Init /\ [][Next]_vars

\* The steps of run() that the thread takes by itself once it is scheduled:
\* all of them but the two that stand for a failure of the device or of the
\* handler (serial.read raising, data_received raising).  A read returns by
\* data, by its timeout or by cancel_read(); a data_received call returns.
RunProceeds ==
    \/ RunFactory \/ RunConnectionMade
    \/ RunStartupNotAlive \/ RunStartupLost \/ RunStartupSignal
    \/ RunSignal \/ RunLoopCheck \/ RunReadCall
    \/ RunReadData \/ RunReadTimeout \/ RunReadCancelled
    \/ RunDataReceived \/ HandlerReturn \/ HandlerCallsWrite
    \/ HandlerWriteBegin \/ HandlerWriteFailed \/ HandlerWriteEnd
    \/ RunNotAlive \/ RunLost \/ RunRelease

\* The steps a caller thread takes inside a method it has called; join(2) at
\* line 57 returns after two seconds at the latest.
CallerProceeds(c) ==
    \/ StopCancelRead(c)
    \/ StopJoinUnstarted(c) \/ StopJoinExited(c) \/ StopJoinTimedOut(c)
    \/ CloseSerial(c) \/ WriteFailed(c) \/ WriteEnd(c)
    \/ ConnectWake(c) \/ ConnectReturn(c)
    \/ EnterWake(c) \/ EnterReturn(c) \/ Body(c) \/ Exit(c)

\* Every thread that can take a step is scheduled in the end.
FairSpec ==
    /\ Spec
    /\ WF_vars(RunProceeds)
    /\ \A c \in Callers : WF_vars(CallerProceeds(c))

\* ------------------------------------------------------------- properties
\* The worker thread is inside a data_received call.
InDataReceived ==
    runPc \in {"in_data_received", "handler_write_lock", "handler_writing",
               "handler_write_failed"}

\* C1: connection_lost is invoked exactly once per run of the worker thread:
\* never twice, and once the run has ended it has been invoked, whether the
\* run ended by stop()/close(), by a closed port, by a read error, by
\* data_received raising or by connection_made raising.
C1_ConnectionLostExactlyOnce ==
    /\ lostCalls <= 1
    /\ runPc = "dead" => lostCalls = 1

\* A run that data_received ended by raising, after a stop() from outside.
C1_Witness ==
    /\ runPc = "dead"
    /\ lostCalls = 1
    /\ lostArg = "HandlerError"
    /\ outcome[Owner].op = "stop"

\* C2: every data_received call runs after connection_made has returned
\* without raising and before connection_lost is invoked; when
\* connection_made raised, data_received is never called.
C2_DataReceivedOrdering ==
    /\ InDataReceived => madeReturned /\ lostCalls = 0
    /\ received # <<>> => madeReturned /\ ~madeRaised
    /\ lostCalls > 0 /\ runPc # "dead" => runPc \in {"startup_signal", "release"}

\* data_received running while close() of another thread waits in join().
C2_Witness ==
    /\ runPc = "in_data_received"
    /\ ~alive
    /\ \E c \in Callers : frame[c] = "close" /\ pc[c] = "stop_join"

\* C3: write() and close() exclude each other: the port is never closed while
\* a serial.write is in progress, at most one thread is inside serial.write
\* and it holds the lock, and a write in progress is on an open port.
C3_WriteCloseExclusion ==
    /\ \A c \in Callers : pc[c] = "close_serial" => serial.writing = {}
    /\ serial.writing # {} => serial.is_open
    /\ \A t \in serial.writing : _lock = t
    /\ \A c \in Callers : pc[c] = "write_failed" => ~serial.is_open

\* A write of the handler waits for the lock while close() is about to close
\* the port, after a write of another thread went through.
C3_Witness ==
    /\ pc[Owner] = "close_serial"
    /\ runPc = "handler_write_lock"
    /\ outcome["aux"] = [op |-> "write", result |-> "ok", value |-> None]

\* C4: a connect() made after connection_made raised fails with
\* 'connection_lost already called', not with 'already stopped'.
C4_ConnectAfterFailedStartup ==
    \A c \in Callers :
        (outcome[c].op = "connect" /\ ctx[c] /\ outcome[c].result # "waiting")
            => outcome[c].result = "connection_lost already called"

\* C5: connect() on a ReaderThread that was never started does not wait on
\* the event: no thread waits at line 115 while the thread is unstarted.
C5_ConnectNeverStartedFails ==
    \A c \in Callers : pc[c] = "connect_wait" => started

\* C6: the event is set on the success path and on the startup-failure path:
\* once run() has ended, the event has been set.
C6_SignalFiredWhenRunEnds ==
    runPc = "dead" => _connection_made

\* C7: close() on a ReaderThread that was never started raises nothing and
\* leaves the port closed and the lock released.
C7_CloseNeverStartedSucceeds ==
    \A c \in Callers :
        (frame[c] = "idle" /\ outcome[c].op = "close" /\ ~started)
            => /\ outcome[c].result = "ok"
               /\ ~serial.is_open
               /\ _lock # c

\* C8: a close() that directly follows a completed close() of the same thread
\* raises nothing and ends in the state the first one ended in: alive false,
\* port closed, lock released; connection_lost is not invoked a second time.
C8_CloseIdempotent ==
    \A c \in Callers :
        (frame[c] = "idle" /\ outcome[c].op = "close"
            /\ outcome[c].value = "repeated")
            => /\ outcome[c].result = "ok"
               /\ ~alive
               /\ ~serial.is_open
               /\ _lock # c
               /\ lostCalls <= 1

\* The second close() has returned on a started thread whose run has ended.
C8_Witness ==
    /\ outcome[Owner] = [op |-> "close", result |-> "ok", value |-> "repeated"]
    /\ frame[Owner] = "idle"
    /\ runPc = "dead"
    /\ lostCalls = 1

\* C9 as claimed: once the with-statement is over, by __exit__ or by
\* __enter__ raising after it started the thread, and no other call is in
\* progress, the port is closed.
C9_ScopedUseReleasesStream ==
    \A c \in Callers :
        (outcome[c].op \in {"enter", "exit"} /\ \A d \in Callers : frame[d] = "idle")
            => ~serial.is_open

\* C9 as amended: once the with-statement has been left through __exit__,
\* after the wrapped code finished or raised, close() has run: the port is
\* closed, alive is false and the lock is not held by that thread.
C9_ExitClosesStream ==
    \A c \in Callers :
        (frame[c] = "idle" /\ outcome[c].op = "exit")
            => ~serial.is_open /\ ~alive /\ _lock # c

\* The wrapped code raised and the with-statement has been left.
C9_Witness ==
    /\ outcome[Owner] = [op |-> "exit", result |-> "reraised", value |-> None]
    /\ frame[Owner] = "idle"

\* C10: alive is true at construction and never goes from false to true.
C10_AliveMonotonic ==
    (alive = TRUE) /\ [][(alive = FALSE) => (alive' = FALSE)]_vars

\* alive is false after a stop() made before start(), and the run has begun.
C10_Witness ==
    /\ ~alive
    /\ runPc = "connection_made"
    /\ outcome[Owner].op = "start"
    /\ calls > 0

\* The worker thread has left the loop of line 73-89.
LeftLoop ==
    runPc \in {"finish", "lost", "release", "dead"}

\* C11: the argument of connection_lost tells how the run ended.  After a
\* connection_made that returned, connection_lost is invoked with the first
\* exception that serial.read or data_received raised, and with None when
\* neither raised (stop(), close() or a port found closed at line 73); the
\* loop is left at the first such exception, and alive is false when
\* connection_lost is invoked.
C11_ErrorIdentifiesEnd ==
    /\ (lostCalls = 1 /\ madeReturned) => lostArg = failure
    /\ runPc = "lost" => ~alive /\ error = failure
    /\ failure # None => LeftLoop \/ runPc = "handler_write_failed"

\* connection_lost has been invoked with the SerialException of a read, before
\* any byte arrived, on a port that close() has closed since.
C11_Witness ==
    /\ lostCalls = 1
    /\ lostArg = "SerialException"
    /\ failure = "SerialException"
    /\ ~serial.is_open
    /\ received = <<>>
    /\ _lock = NoHolder

\* C12: under FairSpec, in a run in which connection_made returns, neither
\* serial.read nor data_received ever raises and the port is not closed
\* (stop() without close()), a started thread whose alive flag has been set
\* to false leaves the loop, invokes connection_lost(None) and ends.
C12_StopEndsRun ==
    [](failure = None /\ madeRaised = FALSE /\ serial.is_open = TRUE)
        => ((started = TRUE /\ alive = FALSE)
                ~> (runPc = "dead" /\ lostCalls = 1 /\ lostArg = None))

\* stop() has returned after the worker, woken from a read that had no
\* timeout, ended with connection_lost(None).
C12_Witness ==
    /\ outcome[Owner] = [op |-> "stop", result |-> "ok", value |-> None]
    /\ frame[Owner] = "idle"
    /\ hasCancelRead
    /\ serial.timeout = None
    /\ serial.is_open
    /\ runPc = "dead"
    /\ lostArg = None
    /\ lostCalls = 1
    /\ received = <<>>

\* C13: the bytes handed to data_received so far are the bytes read from the
\* port so far, in the order read, none dropped, doubled or reordered.  The
\* two are equal at every position of run() but the one between line 76 and
\* line 86, where they differ by the chunk just read, which is the argument
\* of the data_received call that follows.
C13_FaithfulDelivery ==
    /\ readLog = received \o data
    /\ runPc # "data_received" => received = readLog
    /\ \A i \in 1..Len(received) : received[i] = i

\* Two bytes have been handed over and a third read is in progress.
C13_Witness ==
    /\ received = <<1, 2>>
    /\ readLog = <<1, 2>>
    /\ runPc = "reading"

\* Thread c is inside stop(): called as such, or from close() or __exit__.
InStop(c) ==
    pc[c] \in {"stop_cancel", "stop_join"}

\* C14: stop() touches the port by cancel_read() only.  A step of stop(),
\* its first one included, leaves is_open, the timeout, the bytes waiting,
\* the write in progress and the lock as they were; the port goes from open
\* to closed only in the serial.close() of close(), so that a write() made
\* after stop() alone is made on an open port.
C14_StopLeavesPortOpen ==
    [][ /\ \A c \in Callers :
            (InStop(c)' /\ frame'[c] = "stop" /\ pc'[c] # pc[c])
            \/ (InStop(c) /\ frame[c] = "stop" /\ pc'[c] # pc[c])
                => /\ serial'.is_open = serial.is_open
                   /\ serial'.timeout = serial.timeout
                   /\ serial'.rx = serial.rx
                   /\ serial'.writing = serial.writing
                   /\ _lock' = _lock
        /\ (serial.is_open /\ ~serial'.is_open)
                => \E c \in Callers :
                       /\ pc[c] = "close_serial"
                       /\ frame[c] \in {"close", "exit", "exit_raised"}
                       /\ pc'[c] = "idle"
      ]_vars

\* After a stop() that has returned, with no close() made, a write() of the
\* other thread is inside serial.write on the open port.
C14_Witness ==
    /\ outcome[Owner] = [op |-> "stop", result |-> "ok", value |-> None]
    /\ frame[Owner] = "idle"
    /\ calls = MaxCalls
    /\ pc["aux"] = "writing"
    /\ serial.writing = {"aux"}
    /\ serial.is_open
    /\ ~alive

\* C15: once run() has ended, self.protocol is None.
C15_NoHandlerAfterRun ==
    runPc = "dead" => protocol = None

\* C16: data_received is invoked with at least one byte: run() is about to
\* call it only with a non-empty chunk in hand, after a read that returned
\* nothing it is back at the test of line 73 with no chunk to hand over, and
\* a data_received call is in progress only after bytes were handed over.
C16_NonEmptyDispatch ==
    /\ runPc = "data_received" => Len(data) >= 1
    /\ runPc = "loop" => data = <<>>
    /\ received = <<>> => runPc \notin {"in_data_received", "handler_write_lock",
                                        "handler_writing", "handler_write_failed"}

\* A read woken by the cancel_read() of stop() returned nothing, and the
\* worker is back at line 73 without a data_received call.
C16_Witness ==
    /\ runPc = "loop"
    /\ received = <<>>
    /\ readLog = <<>>
    /\ hasCancelRead
    /\ ~serial.cancelled
    /\ serial.is_open
    /\ pc[Owner] = "stop_join"
    /\ frame[Owner] = "stop"
    /\ calls = 1

\* C17: when close() is about to call serial.close() (line 107), the worker
\* is neither inside serial.read nor inside data_received.
C17_ClosesIdlePort ==
    \A c \in Callers :
        pc[c] = "close_serial" => runPc # "reading" /\ ~InDataReceived

\* C18: a connect() that returned normally returned a handler, not None.
C18_ConnectReturnsHandler ==
    \A c \in Callers :
        (outcome[c].op = "connect" /\ outcome[c].result = "ok")
            => outcome[c].value # None

\* Thread c holds the lock inside close() and is in the stop() of line 106
\* while the worker, inside data_received, waits for the lock in write().
CloseBlocksHandlerWrite(c) ==
    /\ frame[c] \in {"close", "exit", "exit_raised"}
    /\ InStop(c)
    /\ _lock = c
    /\ runPc = "handler_write_lock"

\* C19: under FairSpec, a close() that holds the lock and waits in stop()
\* while the worker waits for the same lock in a write() made by
\* data_received returns with the port closed; the write then fails on the
\* closed port and the run ends with one connection_lost call, which is
\* given the SerialException of that write.
C19_CloseNeverDeadlocks ==
    /\ \A c \in Callers :
           CloseBlocksHandlerWrite(c) ~> (frame[c] = "idle" /\ ~serial.is_open)
    /\ (\E c \in Callers : CloseBlocksHandlerWrite(c))
           ~> (runPc = "dead" /\ lostCalls = 1 /\ lostArg = "SerialException")

\* close() has returned and the worker's write has failed on the closed port,
\* after the worker had waited for the lock that close() held.
C19_Witness ==
    /\ runPc = "handler_write_failed"
    /\ failure = "SerialException"
    /\ _lock = Reader
    /\ ~serial.is_open
    /\ \E c \in Callers :
           /\ outcome[c] = [op |-> "close", result |-> "ok", value |-> None]
           /\ frame[c] = "idle"

\* The place of a position of run() in one pass through the method: the
\* start-up (line 61-72), then one loop iteration from the read (line 76) to
\* the dispatch (line 86) and back to the test of line 73, then the exit
\* (line 90-92) and the end of the thread.
Place(p) ==
    CASE p = "unstarted" -> 0
      [] p = "factory" -> 1
      [] p = "connection_made" -> 2
      [] p \in {"startup_failed", "signal"} -> 3
      [] p = "startup_lost" -> 4
      [] p = "startup_signal" -> 5
      [] p = "read_call" -> 6
      [] p = "reading" -> 7
      [] p = "data_received" -> 8
      [] p = "in_data_received" -> 9
      [] p = "handler_write_lock" -> 10
      [] p \in {"handler_writing", "handler_write_failed"} -> 11
      [] p = "loop" -> 12
      [] p = "finish" -> 13
      [] p = "lost" -> 14
      [] p = "release" -> 15
      [] OTHER -> 16

\* C20: once alive is false the worker only moves forward through run():
\* what is left of the iteration it is in, with at most one read and at most
\* one data_received call, then the test of line 73 and the exit.  It does
\* not go from the test of line 73 back to a read.
C20_BoundedDispatchAfterStop ==
    [][ (alive = FALSE /\ runPc' # runPc)
            => /\ Place(runPc') > Place(runPc)
               /\ runPc = "loop" => runPc' = "finish" ]_vars

\* stop() is waiting in join() while the worker, after the read that was in
\* progress returned data, is inside data_received.
C20_Witness ==
    /\ ~alive
    /\ runPc = "in_data_received"
    /\ frame[Owner] = "stop"
    /\ pc[Owner] = "stop_join"
    /\ calls = 1
    /\ received = <<1>>
====
